---- MODULE Spec2Model ----
(***************************************************************************)
(* Model of the Jira/OpenAI webhook service (src/app.py).                  *)
(*                                                                         *)
(* One inbound request is followed through the webhook handler: payload    *)
(* check, extraction of description / issue key, the retry loop around the *)
(* generation POST (call_openai_with_retry), parsing of the generated      *)
(* report, and the tracker PUT (update_jira).  Every outbound call is one  *)
(* step whose answer is chosen by the environment.                         *)
(*                                                                         *)
(*   Spec       one request through webhook(), max_retries at its default  *)
(*   SpecRetry  call_openai_with_retry called directly, for every          *)
(*              max_retries in 0..MaxRetriesBound                          *)
(*   SpecMain   one request through jira_webhook() of src/main.py          *)
(*   SpecTwo    two requests through webhook(), interleaved                *)
(***************************************************************************)
EXTENDS Integers, Sequences, FiniteSets, TLC

VARIABLES
    pc,             \* position of the handler / of the call
    data,           \* request.json, the inbound payload
    description,    \* local of webhook()
    issue_key,      \* local of webhook()
    max_retries,    \* parameter of call_openai_with_retry
    attempt,        \* loop variable of call_openai_with_retry
    resps,          \* outcomes of the generation POSTs sent so far, in order
    waits,          \* durations passed to time.sleep so far, in order
    callResult,     \* how call_openai_with_retry ended: none / returned / raised
    genBody,        \* body of the response call_openai_with_retry returned
    puts,           \* tracker PUTs sent so far: <<issue key, title, description>>
    putResp,        \* the tracker's answer to the PUT
    jsonParsed,     \* update_resp.json() was called
    console,        \* what the console branch printed
    response,       \* the handler's HTTP response
    other           \* the frame of a second request in flight (SpecTwo only)

vars == <<pc, data, description, issue_key, max_retries, attempt, resps, waits,
          callResult, genBody, puts, putResp, jsonParsed, console, response, other>>

----------------------------------------------------------------------------
(* Bounds and program constants *)

MaxRetriesBound == 4

DefaultMaxRetries == 5

\* Python's None / a key that is not in the dict
Absent == "<absent>"

\* Python truthiness of the values the handler tests with `not`
Truthy(v) == v # Absent /\ v # ""

----------------------------------------------------------------------------
(* Inbound payloads *)

Keys == {"", "PROJ-1", "PROJ-2"}

Descriptions == {"", "login fails"}

\* {"issue": {"key": k, "fields": {"description": d}}, "description": d2},
\* each part optional.  body "none" is request.json = None, body "empty" is {}.
NoPayload ==
    [body |-> "none", issue |-> Absent, key |-> Absent, fields |-> Absent,
     fdesc |-> Absent, desc |-> Absent]

ObjectPayloads ==
    { p \in [body : {"object"},
             issue : {Absent, "object"},
             key : Keys \cup {Absent},
             fields : {Absent, "object"},
             fdesc : Descriptions \cup {Absent},
             desc : Descriptions \cup {Absent}] :
        /\ p.issue = Absent => (p.key = Absent /\ p.fields = Absent)
        /\ p.fields = Absent => p.fdesc = Absent }

\* an object with no member at all is the empty dict
IsEmptyDict(p) == p.issue = Absent /\ p.desc = Absent

Payloads ==
    {NoPayload}
    \cup {[p EXCEPT !.body = "empty"] : p \in {q \in ObjectPayloads : IsEmptyDict(q)}}
    \cup ObjectPayloads

\* variant: the payload check is missing
DataFalsy_Never(d) == FALSE

\* `not data`: None and {} are falsy.  A dict carrying only unrelated members
\* is modelled as body "object" with issue and desc absent, and is truthy.
DataFalsy(d) == d.body \in {"none", "empty"}

\* "issue" in data and "key" in data["issue"]
IsJiraPayload(d) == d.issue # Absent /\ d.key # Absent

\* issue["fields"] raises KeyError when the issue has no fields
ExtractRaises(d) == IsJiraPayload(d) /\ d.fields = Absent

ExtractIssueKey(d) == IF IsJiraPayload(d) THEN d.key ELSE Absent

\* issue["fields"].get("description", "")  /  data["description"]  /  None
ExtractDescription(d) ==
    IF IsJiraPayload(d)
    THEN (IF d.fdesc = Absent THEN "" ELSE d.fdesc)
    ELSE IF d.desc # Absent THEN d.desc ELSE Absent

----------------------------------------------------------------------------
(* Responses of the handler *)

Reply(status, code, message, title, desc, jira) ==
    [status |-> status, code |-> code, message |-> message,
     title |-> title, description |-> desc, jira_response |-> jira]

NoReply == Reply(Absent, 0, Absent, Absent, Absent, Absent)

ErrorReply(code, message) == Reply("error", code, message, Absent, Absent, Absent)

\* variant: the skip is answered 204 No Content
SkippedReply_204 == Reply("skipped", 204, "Empty description", Absent, Absent, Absent)

SkippedReply == Reply("skipped", 200, "Empty description", Absent, Absent, Absent)

ConsoleReply(title, desc) == Reply("success", 200, Absent, title, desc, Absent)

JiraReply(jira) == Reply("success", 200, Absent, Absent, Absent, jira)

SyntheticMessage == "Issue updated successfully. (No content returned from Jira)"

ExhaustedMessage == "Failed after retries due to rate limits"

----------------------------------------------------------------------------
(* call_openai_with_retry *)

RECURSIVE Pow2(_)
Pow2(n) == IF n = 0 THEN 1 ELSE 2 * Pow2(n - 1)

GenStatuses == {200, 429, 401, 500}

TransportErrors == {"ConnectionError", "Timeout"}

HttpOutcome(s) == [kind |-> "http", status |-> s, error |-> Absent]

TransportOutcome(e) == [kind |-> "transport", status |-> 0, error |-> e]

\* what requests.post can do: answer with a status, or raise
GenOutcomes ==
    {HttpOutcome(s) : s \in GenStatuses} \cup {TransportOutcome(e) : e \in TransportErrors}

\* variant: one iteration too many, range(max_retries + 1)
LoopRuns_OffByOne(a, m) == a <= m

\* for attempt in range(max_retries)
LoopRuns(a, m) == a < m

\* resp.status_code == 429
IsRateLimited(o) == o.kind = "http" /\ o.status = 429

\* variant: only server errors raise
RaiseForStatus_5xxOnly(s) == s >= 500 /\ s < 600

\* resp.raise_for_status(): HTTPError for 4xx and 5xx
RaiseForStatus(s) == s >= 400 /\ s < 600

\* the exception the body of the try raises for this outcome, Absent if none
RaisedInTry(o) ==
    IF o.kind = "transport" THEN o.error
    ELSE IF ~IsRateLimited(o) /\ RaiseForStatus(o.status) THEN "HTTPError"
    ELSE Absent

\* except requests.exceptions.RequestException: ConnectionError, Timeout and
\* HTTPError are all subclasses of RequestException
ExceptCatches(e) == e \in {"ConnectionError", "Timeout", "HTTPError"}

\* variant: linear backoff, attempt + 1
RateLimitWait_Linear(a) == a + 1

\* wait_time = 2 ** attempt
RateLimitWait(a) == Pow2(a)

\* variant: a fixed one-unit pause in the except branch
ExceptWait_Fixed(a) == 1

\* variant: the except branch is one step ahead, 2 ** (attempt + 1)
ExceptWait_Ahead(a) == Pow2(a + 1)

\* time.sleep(2 ** attempt) in the except branch
ExceptWait(a) == Pow2(a)

CallVars == <<max_retries, attempt, resps, waits, callResult, genBody>>

HandlerVars == <<data, description, issue_key, puts, putResp, jsonParsed, console, response>>

\* 429: sleep and continue with the next attempt
PostRateLimited ==
    /\ pc = "post"
    /\ LoopRuns(attempt, max_retries)
    /\ \E o \in GenOutcomes :
        /\ IsRateLimited(o)
        /\ resps' = Append(resps, o)
    /\ waits' = Append(waits, RateLimitWait(attempt))
    /\ attempt' = attempt + 1
    /\ UNCHANGED <<pc, max_retries, callResult, genBody>>
    /\ UNCHANGED HandlerVars
    /\ UNCHANGED other

\* requests.post or raise_for_status raised and the except clause caught it:
\* log, sleep, fall through to the next attempt
PostFailed ==
    /\ pc = "post"
    /\ LoopRuns(attempt, max_retries)
    /\ \E o \in GenOutcomes :
        /\ ~IsRateLimited(o)
        /\ RaisedInTry(o) # Absent
        /\ ExceptCatches(RaisedInTry(o))
        /\ resps' = Append(resps, o)
    /\ waits' = Append(waits, ExceptWait(attempt))
    /\ attempt' = attempt + 1
    /\ UNCHANGED <<pc, max_retries, callResult, genBody>>
    /\ UNCHANGED HandlerVars
    /\ UNCHANGED other

----------------------------------------------------------------------------
(* generate_report: what the generation endpoint can send back with a 2xx *)

ReportKeys == {"title", "description"}

GenBodies ==
    {[kind |-> k, keys |-> {}] :
        k \in {"not_json", "no_choices", "content_invalid", "content_not_object"}}
    \cup {[kind |-> "object", keys |-> K] : K \in SUBSET ReportKeys}

NoBody == [kind |-> Absent, keys |-> {}]

\* return resp
PostReturned ==
    /\ pc = "post"
    /\ LoopRuns(attempt, max_retries)
    /\ \E o \in GenOutcomes :
        /\ ~IsRateLimited(o)
        /\ RaisedInTry(o) = Absent
        /\ resps' = Append(resps, o)
    /\ \E b \in GenBodies : genBody' = b
    /\ callResult' = "returned"
    /\ pc' = "call_done"
    /\ UNCHANGED <<max_retries, attempt, waits>>
    /\ UNCHANGED HandlerVars
    /\ UNCHANGED other

\* the loop ran out: raise Exception("Failed after retries due to rate limits")
Exhausted ==
    /\ pc = "post"
    /\ ~LoopRuns(attempt, max_retries)
    /\ callResult' = "raised"
    /\ pc' = "call_done"
    /\ UNCHANGED <<max_retries, attempt, resps, waits, genBody>>
    /\ UNCHANGED HandlerVars
    /\ UNCHANGED other

posts == Len(resps)

----------------------------------------------------------------------------
(* webhook(): payload check and extraction, lines 135-160 *)

Respond(r) ==
    /\ response' = r
    /\ pc' = "done"

\* if not data: 400
WebhookNoPayload ==
    /\ pc = "start"
    /\ DataFalsy(data)
    /\ Respond(ErrorReply(400, "No JSON payload received"))
    /\ UNCHANGED <<data, description, issue_key, puts, putResp, jsonParsed, console>>
    /\ UNCHANGED CallVars
    /\ UNCHANGED other

\* issue["fields"] raises KeyError, caught by the except of the handler
WebhookExtractFails ==
    /\ pc = "start"
    /\ ~DataFalsy(data)
    /\ ExtractRaises(data)
    /\ issue_key' = ExtractIssueKey(data)
    /\ Respond(ErrorReply(500, "'fields'"))
    /\ UNCHANGED <<data, description, puts, putResp, jsonParsed, console>>
    /\ UNCHANGED CallVars
    /\ UNCHANGED other

\* if not description: skipped
WebhookSkipped ==
    /\ pc = "start"
    /\ ~DataFalsy(data)
    /\ ~ExtractRaises(data)
    /\ issue_key' = ExtractIssueKey(data)
    /\ description' = ExtractDescription(data)
    /\ ~Truthy(description')
    /\ Respond(SkippedReply)
    /\ UNCHANGED <<data, puts, putResp, jsonParsed, console>>
    /\ UNCHANGED CallVars
    /\ UNCHANGED other

\* generate_report(description) -> call_openai_with_retry(payload, headers)
WebhookGenerate ==
    /\ pc = "start"
    /\ ~DataFalsy(data)
    /\ ~ExtractRaises(data)
    /\ issue_key' = ExtractIssueKey(data)
    /\ description' = ExtractDescription(data)
    /\ Truthy(description')
    /\ max_retries' = DefaultMaxRetries
    /\ attempt' = 0
    /\ pc' = "post"
    /\ UNCHANGED <<data, puts, putResp, jsonParsed, console, response>>
    /\ UNCHANGED <<resps, waits, callResult, genBody>>
    /\ UNCHANGED other

----------------------------------------------------------------------------
(* generate_report lines 85-88 and webhook lines 160-169 *)

GeneratedTitle == "Login fails with valid credentials"

GeneratedDescription == "### Summary: ..."

\* variant: content that does not parse is taken for an empty report
ReportError_Lenient(b) ==
    CASE b.kind = "not_json" -> "JSONDecodeError"
      [] b.kind = "no_choices" -> "'choices'"
      [] b.kind = "content_not_object" -> "'list' object has no attribute 'get'"
      [] OTHER -> Absent

\* the exception raised between the return of the POST and the use of the
\* parsed report, Absent if none: resp.json(), ["choices"], json.loads(content),
\* parsed.get
ReportError(b) ==
    CASE b.kind = "not_json" -> "JSONDecodeError"
      [] b.kind = "no_choices" -> "'choices'"
      [] b.kind = "content_invalid" -> "JSONDecodeError"
      [] b.kind = "content_not_object" -> "'list' object has no attribute 'get'"
      [] OTHER -> Absent

\* variant: no default, parsed.get("title")
NewTitle_NoDefault(b) == IF "title" \in b.keys THEN GeneratedTitle ELSE Absent

\* parsed.get("title", "No Title Generated")
NewTitle(b) == IF "title" \in b.keys THEN GeneratedTitle ELSE "No Title Generated"

\* parsed.get("description", "No Description Provided")
NewDescription(b) ==
    IF "description" \in b.keys THEN GeneratedDescription ELSE "No Description Provided"

\* variant: the test is inverted, `if issue_key:`
ConsoleOnly_Inverted(k) == Truthy(k)

\* variant: only the empty string counts as no key, `if issue_key == "":`
ConsoleOnly_EmptyOnly(k) == k = ""

\* if not issue_key:  # Console-only mode
ConsoleOnly(k) == ~Truthy(k)

\* the exhausted-retries exception reaches the except of the handler
GenerateRaised ==
    /\ pc = "call_done"
    /\ callResult = "raised"
    /\ Respond(ErrorReply(500, ExhaustedMessage))
    /\ UNCHANGED <<data, description, issue_key, puts, putResp, jsonParsed, console>>
    /\ UNCHANGED CallVars
    /\ UNCHANGED other

\* the 2xx answer cannot be turned into a report
ReportFails ==
    /\ pc = "call_done"
    /\ callResult = "returned"
    /\ ReportError(genBody) # Absent
    /\ Respond(ErrorReply(500, ReportError(genBody)))
    /\ UNCHANGED <<data, description, issue_key, puts, putResp, jsonParsed, console>>
    /\ UNCHANGED CallVars
    /\ UNCHANGED other

ConsoleOutput ==
    /\ pc = "call_done"
    /\ callResult = "returned"
    /\ ReportError(genBody) = Absent
    /\ ConsoleOnly(issue_key)
    /\ console' = <<NewTitle(genBody), NewDescription(genBody)>>
    /\ Respond(ConsoleReply(NewTitle(genBody), NewDescription(genBody)))
    /\ UNCHANGED <<data, description, issue_key, puts, putResp, jsonParsed>>
    /\ UNCHANGED CallVars
    /\ UNCHANGED other

----------------------------------------------------------------------------
(* update_jira and webhook lines 172-178 *)

PutStatuses == {200, 204, 404}

Whitespace == {" ", "\n"}

\* update_resp.text, as a sequence of characters
PutTexts == {<<>>, <<" ">>, <<"\n", " ">>, <<"{", "}">>, <<" ", "{", "}">>, <<"o", "k">>}

RECURSIVE LStrip(_)
LStrip(t) == IF t # <<>> /\ Head(t) \in Whitespace THEN LStrip(Tail(t)) ELSE t

RECURSIVE RStrip(_)
RStrip(t) ==
    IF t # <<>> /\ t[Len(t)] \in Whitespace THEN RStrip(SubSeq(t, 1, Len(t) - 1)) ELSE t

\* str.strip()
Strip(t) == RStrip(LStrip(t))

\* update_resp.json(): the parsed document, or Absent when decoding raises
ParseJson(t) == IF Strip(t) = <<"{", "}">> THEN "{}" ELSE Absent

PutOutcomes ==
    {[kind |-> "http", status |-> s, text |-> t, error |-> Absent] :
        s \in PutStatuses, t \in PutTexts}
    \cup {[kind |-> "transport", status |-> 0, text |-> <<>>, error |-> e] :
            e \in TransportErrors}

NoPutResp == [kind |-> Absent, status |-> 0, text |-> <<>>, error |-> Absent]

\* variant: update_resp.raise_for_status() is missing
UpdateRaises_NoStatusCheck(o) == IF o.kind = "transport" THEN o.error ELSE Absent

\* update_jira raises: requests.put raised, or update_resp.raise_for_status()
UpdateRaises(o) ==
    IF o.kind = "transport" THEN o.error
    ELSE IF RaiseForStatus(o.status) THEN "HTTPError"
    ELSE Absent

\* variant: only the status is looked at
NoContent_StatusOnly(status, text) == status = 204

\* update_resp.status_code == 204 or not update_resp.text.strip()
NoContent(status, text) == status = 204 \/ Strip(text) = <<>>

UpdateJira ==
    /\ pc = "call_done"
    /\ callResult = "returned"
    /\ ReportError(genBody) = Absent
    /\ ~ConsoleOnly(issue_key)
    /\ puts' = Append(puts, <<issue_key, NewTitle(genBody), NewDescription(genBody)>>)
    /\ \E o \in PutOutcomes :
        /\ putResp' = o
        /\ IF UpdateRaises(o) # Absent
           THEN /\ jsonParsed' = FALSE
                /\ Respond(ErrorReply(500, UpdateRaises(o)))
           ELSE IF NoContent(o.status, o.text)
           THEN /\ jsonParsed' = FALSE
                /\ Respond(JiraReply(SyntheticMessage))
           ELSE /\ jsonParsed' = TRUE
                /\ IF ParseJson(o.text) = Absent
                   THEN Respond(ErrorReply(500, "JSONDecodeError"))
                   ELSE Respond(JiraReply(ParseJson(o.text)))
    /\ UNCHANGED <<data, description, issue_key, console>>
    /\ UNCHANGED CallVars
    /\ UNCHANGED other

----------------------------------------------------------------------------
(* Specifications *)

InitCall ==
    /\ attempt = 0
    /\ resps = <<>>
    /\ waits = <<>>
    /\ callResult = "none"
    /\ genBody = NoBody

\* the frame of a request: the locals of its handler and of the calls it makes
NewFrame(d) ==
    [pc |-> "start", data |-> d, description |-> Absent, issue_key |-> Absent,
     max_retries |-> DefaultMaxRetries, attempt |-> 0, resps |-> <<>>, waits |-> <<>>,
     callResult |-> "none", genBody |-> NoBody, puts |-> <<>>, putResp |-> NoPutResp,
     jsonParsed |-> FALSE, console |-> <<>>, response |-> NoReply]

\* no second request
NoFrame == [NewFrame(NoPayload) EXCEPT !.pc = "none"]

InitHandler ==
    /\ description = Absent
    /\ issue_key = Absent
    /\ puts = <<>>
    /\ putResp = NoPutResp
    /\ jsonParsed = FALSE
    /\ console = <<>>
    /\ response = NoReply
    /\ other = NoFrame

\* one request arrives at webhook()
Init ==
    /\ pc = "start"
    /\ data \in Payloads
    /\ max_retries = DefaultMaxRetries
    /\ InitCall
    /\ InitHandler

Next ==
    \/ WebhookNoPayload
    \/ WebhookExtractFails
    \/ WebhookSkipped
    \/ WebhookGenerate
    \/ PostRateLimited
    \/ PostFailed
    \/ PostReturned
    \/ Exhausted
    \/ GenerateRaised
    \/ ReportFails
    \/ ConsoleOutput
    \/ UpdateJira

Spec == Init /\ [][Next]_vars

\* call_openai_with_retry(payload, headers, max_retries) called on its own
InitRetry ==
    /\ pc = "post"
    /\ data = NoPayload
    /\ max_retries \in 0..MaxRetriesBound
    /\ InitCall
    /\ InitHandler

NextRetry ==
    \/ PostRateLimited
    \/ PostFailed
    \/ PostReturned
    \/ Exhausted

SpecRetry == InitRetry /\ [][NextRetry]_vars

----------------------------------------------------------------------------
(* Properties of call_openai_with_retry, checked under SpecRetry *)

IsHttpError(o) == o.kind = "http" /\ o.status # 429 /\ o.status >= 400 /\ o.status < 600

IsSuccess(o) == o.kind = "http" /\ o.status >= 200 /\ o.status < 300

IsTransportError(o) == o.kind = "transport"

Is429(o) == o.kind = "http" /\ o.status = 429

All429(n) == \A i \in 1..n : Is429(resps[i])

\* C1 (as claimed): an attempt answered with a non-success status other than
\* 429 ends the call at once with an error: that response is the last POST,
\* and no wait follows it.
C1_HttpErrorIsTerminal ==
    \A i \in 1..Len(resps) :
        IsHttpError(resps[i]) =>
            /\ Len(resps) = i
            /\ Len(waits) = i - 1
            /\ callResult = "raised"

\* C2: one call never sends more than max_retries POSTs, and when all
\* max_retries attempts were answered 429 the call ends with the
\* exhausted-retries error and not with a response.
C2_AtMostMaxRetriesPosts ==
    /\ posts <= max_retries
    /\ callResult = "raised" => posts = max_retries
    /\ (posts = max_retries /\ All429(posts)) =>
            /\ callResult # "returned"
            /\ pc = "call_done" => callResult = "raised"

C2_Witness ==
    /\ max_retries = 3
    /\ posts = 3
    /\ All429(3)
    /\ callResult = "raised"

\* C3: k answers of 429 followed by a success give exactly k waits of
\* 1, 2, ..., 2^(k-1) and k+1 POSTs, the success is returned, and nothing is
\* sent or waited for after the return.
C3_State ==
    (callResult = "returned" /\ All429(Len(resps) - 1)) =>
        /\ IsSuccess(resps[Len(resps)])
        /\ posts = Len(waits) + 1
        /\ posts <= max_retries
        /\ \A i \in 1..Len(waits) : waits[i] = 2 ^ (i - 1)

C3_BackoffThenReturn ==
    /\ []C3_State
    /\ [][callResult = "returned" => (resps' = resps /\ waits' = waits)]_vars

C3_Witness ==
    /\ callResult = "returned"
    /\ Len(resps) = 3
    /\ Is429(resps[1]) /\ Is429(resps[2]) /\ resps[3].status = 200
    /\ waits = <<1, 2>>

\* C4: a transport error or a 429 at attempt index i (the i+1-th POST) is
\* followed by a wait of 2^i; both kinds advance the same counter, which is
\* the number of POSTs sent, so the POSTs stay bounded by max_retries and the
\* loop goes on to the next attempt.
C4_SharedBackoffCounter ==
    /\ posts <= max_retries
    /\ \A i \in 1..Len(resps) :
        (IsTransportError(resps[i]) \/ Is429(resps[i])) =>
            /\ Len(waits) >= i
            /\ waits[i] = 2 ^ (i - 1)
            /\ (i = Len(resps) /\ callResult = "none") => (pc = "post" /\ attempt = i)

C4_Witness ==
    /\ Len(resps) = 3
    /\ IsTransportError(resps[1]) /\ Is429(resps[2]) /\ IsTransportError(resps[3])
    /\ waits = <<1, 2, 4>>

----------------------------------------------------------------------------
(* Properties of webhook(), checked under Spec *)

Answered == pc = "done"

\* the description the payload carries for the branch that reads it: the
\* nested one for a tracker payload, the top-level one otherwise
PayloadDescription(d) == IF IsJiraPayload(d) THEN d.fdesc ELSE d.desc

NoOutboundCall == posts = 0 /\ puts = <<>>

\* C5 (as claimed): every payload whose description is empty or missing,
\* the payload without any description field included, is answered
\* "skipped" with HTTP 200, and no generation POST or tracker PUT is sent.
C5_EmptyDescriptionSkipped ==
    (data.body # "none" /\ PayloadDescription(data) \in {Absent, ""}) =>
        /\ NoOutboundCall
        /\ Answered => (response.status = "skipped" /\ response.code = 200)

\* C6 (as claimed): a payload with an issue object that has a key, whatever
\* the key, and a non-empty description gets a tracker PUT and no console
\* output once generation has returned a report.
HasReport == callResult = "returned" /\ genBody.kind = "object"

C6_AnyKeyUpdatesTracker ==
    (/\ Answered
     /\ IsJiraPayload(data)
     /\ data.fdesc \notin {Absent, ""}
     /\ HasReport) =>
        /\ Len(puts) = 1
        /\ console = <<>>

\* C6 (amended): the same for every non-empty key; the PUT is for that key.
C6_NonEmptyKeyUpdatesTracker ==
    (/\ Answered
     /\ IsJiraPayload(data)
     /\ data.key # ""
     /\ data.fdesc \notin {Absent, ""}
     /\ HasReport) =>
        /\ Len(puts) = 1
        /\ puts[1][1] = data.key
        /\ console = <<>>

C6_Witness ==
    /\ Answered
    /\ data.key = "PROJ-2"
    /\ HasReport
    /\ Len(puts) = 1
    /\ puts[1][1] = "PROJ-2"
    /\ console = <<>>

\* C7: a payload with only a top-level description and no issue object never
\* leads to a tracker PUT; when generation returned a report, the report is
\* printed to the console and the answer is "success", HTTP 200, with the
\* generated title and description.
C7_DirectInputConsoleOnly ==
    (data.issue = Absent /\ data.desc # Absent) =>
        /\ puts = <<>>
        /\ (Answered /\ HasReport) =>
            /\ console # <<>>
            /\ response.status = "success"
            /\ response.code = 200
            /\ response.title = console[1]
            /\ response.description = console[2]
            /\ "title" \in genBody.keys => response.title = GeneratedTitle
            /\ "description" \in genBody.keys => response.description = GeneratedDescription

C7_Witness ==
    /\ Answered
    /\ data.issue = Absent
    /\ data.desc = "login fails"
    /\ genBody.keys = ReportKeys
    /\ console = <<GeneratedTitle, GeneratedDescription>>
    /\ response.status = "success"

\* C8: an absent JSON body is answered "error" with HTTP 400 before anything
\* else: nothing is extracted and no outbound call is made.
C8_NoPayloadIs400 ==
    data.body = "none" =>
        /\ pc \in {"start", "done"}
        /\ NoOutboundCall
        /\ description = Absent /\ issue_key = Absent
        /\ Answered => (response.status = "error" /\ response.code = 400)

C8_Witness ==
    /\ Answered
    /\ data.body = "none"
    /\ response.status = "error"
    /\ response.code = 400

\* C9 (as claimed): for a non-empty payload, a failure during extraction,
\* generation (retry exhaustion, an HTTP error status) or the tracker update
\* ends the request with "error", HTTP 500, never with "success".
FailureRaised ==
    \/ ExtractRaises(data)
    \/ callResult = "raised"
    \/ \E i \in 1..Len(resps) : IsHttpError(resps[i])
    \/ (callResult = "returned" /\ genBody.kind # "object")
    \/ (putResp.kind = "transport")
    \/ (putResp.kind = "http" /\ putResp.status >= 400)
    \/ (jsonParsed /\ ParseJson(putResp.text) = Absent)

C9_FailureIs500 ==
    (Answered /\ ~DataFalsy(data) /\ FailureRaised) =>
        /\ response.status = "error"
        /\ response.code = 500

\* C10: a tracker answer that update_jira hands back with status 204, or
\* with an empty or whitespace-only body, gives the fixed synthetic message
\* without parsing the body; a body is parsed only when the status is not
\* 204 and the body is not blank.
IsBlank(t) == \A i \in 1..Len(t) : t[i] \in {" ", "\n"}

C10_NoContentIsSynthetic ==
    /\ (/\ Answered
        /\ putResp.kind = "http"
        /\ putResp.status < 400
        /\ (putResp.status = 204 \/ IsBlank(putResp.text))) =>
            /\ ~jsonParsed
            /\ response.status = "success"
            /\ response.jira_response = SyntheticMessage
    /\ jsonParsed =>
            /\ putResp.kind = "http"
            /\ putResp.status # 204
            /\ ~IsBlank(putResp.text)

C10_Witness ==
    /\ Answered
    /\ putResp.status = 200
    /\ putResp.text = <<"\n", " ">>
    /\ ~jsonParsed
    /\ response.jira_response = SyntheticMessage

\* C11 (as claimed): a tracker payload (issue object with a key) whose nested
\* description is absent, be it the description key or the whole fields
\* object, is answered "skipped" with HTTP 200 and not as an error.
C11_AbsentNestedDescriptionSkipped ==
    (Answered /\ IsJiraPayload(data) /\ data.fdesc = Absent) =>
        /\ response.status = "skipped"
        /\ response.code = 200

\* C12: when the content of the returned message is not valid JSON, no
\* further generation POST is sent, no tracker PUT is sent, nothing is
\* printed, and the answer is "error" with HTTP 500.
C12_State ==
    (callResult = "returned" /\ genBody.kind = "content_invalid") =>
        /\ puts = <<>>
        /\ console = <<>>
        /\ pc \in {"call_done", "done"}
        /\ Answered => (response.status = "error" /\ response.code = 500)

C12_ParseFailureIsTerminal ==
    /\ []C12_State
    /\ [][genBody.kind = "content_invalid" => posts' = posts]_vars

C12_Witness ==
    /\ Answered
    /\ genBody.kind = "content_invalid"
    /\ issue_key = "PROJ-1"
    /\ posts = 2
    /\ response.status = "error"
    /\ response.code = 500

\* C13: one request sends at most one tracker PUT, and a PUT answered with a
\* non-success status ends the request with "error", HTTP 500.
C13_PutErrorIsTerminal ==
    /\ Len(puts) <= 1
    /\ (putResp.kind = "http" /\ putResp.status >= 400) =>
            /\ Answered
            /\ Len(puts) = 1
            /\ response.status = "error"
            /\ response.code = 500

C13_Witness ==
    /\ Answered
    /\ Len(puts) = 1
    /\ putResp.status = 404
    /\ response.status = "error"
    /\ response.code = 500

\* C14: every answer of the handler is "success" or "skipped" with HTTP 200,
\* or "error" with HTTP 400 or 500; 400 is the answer to a missing payload.
C14_StatusCodePairs ==
    Answered =>
        /\ <<response.status, response.code>> \in
              {<<"success", 200>>, <<"skipped", 200>>, <<"error", 400>>, <<"error", 500>>}
        /\ response.code = 400 => DataFalsy(data)

C14_Witness ==
    /\ Answered
    /\ response.status = "skipped"
    /\ response.code = 200

\* C15: a report without the title key or without the description key gets
\* the placeholder text for the missing one, and goes the way a complete
\* report goes: to the tracker when the request has a key, to the console
\* otherwise.
ExpectedTitle == IF "title" \in genBody.keys THEN GeneratedTitle ELSE "No Title Generated"

ExpectedDescription ==
    IF "description" \in genBody.keys THEN GeneratedDescription ELSE "No Description Provided"

C15_PlaceholdersKeepBranch ==
    (Answered /\ HasReport) =>
        IF issue_key \in {Absent, ""}
        THEN /\ puts = <<>>
             /\ console = <<ExpectedTitle, ExpectedDescription>>
             /\ response.title = ExpectedTitle
             /\ response.description = ExpectedDescription
        ELSE /\ console = <<>>
             /\ puts = << <<issue_key, ExpectedTitle, ExpectedDescription>> >>

C15_Witness ==
    /\ Answered
    /\ HasReport
    /\ genBody.keys = {"description"}
    /\ puts = << <<"PROJ-1", "No Title Generated", GeneratedDescription>> >>

----------------------------------------------------------------------------
(* Further properties of call_openai_with_retry, checked under SpecRetry *)

RECURSIVE SumSeq(_)
SumSeq(q) == IF q = <<>> THEN 0 ELSE Head(q) + SumSeq(Tail(q))

IsRetried(o) == Is429(o) \/ IsTransportError(o) \/ IsHttpError(o)

\* C16: every attempt that failed with a 429 or a caught request error is
\* followed by one wait of 2^i, the last attempt included: the waits are
\* exactly one per failed attempt, and when the call ends exhausted there
\* have been max_retries waits, 2^max_retries - 1 units in all.
C16_OneWaitPerFailedAttempt ==
    /\ Len(waits) = Cardinality({i \in 1..Len(resps) : IsRetried(resps[i])})
    /\ \A i \in 1..Len(waits) : IsRetried(resps[i]) /\ waits[i] = 2 ^ (i - 1)
    /\ callResult = "raised" =>
            /\ Len(waits) = max_retries
            /\ SumSeq(waits) = 2 ^ max_retries - 1

C16_Witness ==
    /\ callResult = "raised"
    /\ max_retries = 3
    /\ IsTransportError(resps[3])
    /\ waits = <<1, 2, 4>>

----------------------------------------------------------------------------
(* Ordering of the outbound calls of webhook(), checked under Spec *)

\* C17: a tracker PUT is sent only after a generation POST was answered with
\* success and its content parsed as JSON, so never after retry exhaustion,
\* a final HTTP error or a parse failure; and an answer carrying a tracker
\* result follows a PUT that was answered with a success status.
C17_PutOnlyAfterReport ==
    /\ puts # <<>> =>
            /\ callResult = "returned"
            /\ IsSuccess(resps[Len(resps)])
            /\ genBody.kind \notin {"not_json", "no_choices", "content_invalid"}
    /\ response.jira_response # Absent =>
            /\ response.status = "success"
            /\ Len(puts) = 1
            /\ putResp.kind = "http"
            /\ putResp.status >= 200 /\ putResp.status < 400

C17_Witness ==
    /\ Answered
    /\ Len(puts) = 1
    /\ Is429(resps[1])
    /\ IsSuccess(resps[2])
    /\ putResp.status = 204
    /\ response.jira_response = SyntheticMessage

----------------------------------------------------------------------------
(* jira_webhook() of src/main.py: the variant without retry and without the *)
(* console branch                                                           *)

\* issue = data.get("issue"); not issue or "key" not in issue
MissingIssue(d) == d.issue = Absent \/ d.key = Absent

\* variant: a 429 is not treated as an error status
MainPostRaises_Skip429(o) ==
    IF o.kind = "transport" THEN o.error
    ELSE IF o.status # 429 /\ RaiseForStatus(o.status) THEN "HTTPError"
    ELSE Absent

\* requests.post raised, or openai_resp.raise_for_status() did
MainPostRaises(o) ==
    IF o.kind = "transport" THEN o.error
    ELSE IF RaiseForStatus(o.status) THEN "HTTPError"
    ELSE Absent

MainNoPayload ==
    /\ pc = "start"
    /\ DataFalsy(data)
    /\ Respond(ErrorReply(400, "No JSON payload received"))
    /\ UNCHANGED <<data, description, issue_key, puts, putResp, jsonParsed, console>>
    /\ UNCHANGED CallVars
    /\ UNCHANGED other

MainMissingIssue ==
    /\ pc = "start"
    /\ ~DataFalsy(data)
    /\ MissingIssue(data)
    /\ Respond(ErrorReply(400, "Missing issue or issue key"))
    /\ UNCHANGED <<data, description, issue_key, puts, putResp, jsonParsed, console>>
    /\ UNCHANGED CallVars
    /\ UNCHANGED other

\* issue["fields"] raises KeyError
MainExtractFails ==
    /\ pc = "start"
    /\ ~DataFalsy(data)
    /\ ~MissingIssue(data)
    /\ data.fields = Absent
    /\ issue_key' = data.key
    /\ Respond(ErrorReply(500, "'fields'"))
    /\ UNCHANGED <<data, description, puts, putResp, jsonParsed, console>>
    /\ UNCHANGED CallVars
    /\ UNCHANGED other

MainExtracted ==
    /\ pc = "start"
    /\ ~DataFalsy(data)
    /\ ~MissingIssue(data)
    /\ data.fields # Absent
    /\ issue_key' = data.key
    /\ description' = (IF data.fdesc = Absent THEN "" ELSE data.fdesc)

MainSkipped ==
    /\ MainExtracted
    /\ ~Truthy(description')
    /\ Respond(Reply("skipped", 200, "Empty description. Skipping OpenAI call.",
                     Absent, Absent, Absent))
    /\ UNCHANGED <<data, puts, putResp, jsonParsed, console>>
    /\ UNCHANGED CallVars
    /\ UNCHANGED other

\* if not issue_key: 400
MainMissingKey ==
    /\ MainExtracted
    /\ Truthy(description')
    /\ ~Truthy(issue_key')
    /\ Respond(ErrorReply(400, "Missing issue key"))
    /\ UNCHANGED <<data, puts, putResp, jsonParsed, console>>
    /\ UNCHANGED CallVars
    /\ UNCHANGED other

\* the prompt is built, the POST is next
MainGenerate ==
    /\ MainExtracted
    /\ Truthy(description')
    /\ Truthy(issue_key')
    /\ pc' = "post"
    /\ UNCHANGED <<data, puts, putResp, jsonParsed, console, response>>
    /\ UNCHANGED CallVars
    /\ UNCHANGED other

\* the single POST raised or was answered 4xx/5xx: straight to the except
MainPostFails ==
    /\ pc = "post"
    /\ \E o \in GenOutcomes :
        /\ MainPostRaises(o) # Absent
        /\ resps' = Append(resps, o)
        /\ Respond(ErrorReply(500, MainPostRaises(o)))
    /\ callResult' = "raised"
    /\ UNCHANGED <<data, description, issue_key, puts, putResp, jsonParsed, console>>
    /\ UNCHANGED <<max_retries, attempt, waits, genBody>>
    /\ UNCHANGED other

MainPostReturned ==
    /\ pc = "post"
    /\ \E o \in GenOutcomes :
        /\ MainPostRaises(o) = Absent
        /\ resps' = Append(resps, o)
    /\ \E b \in GenBodies : genBody' = b
    /\ callResult' = "returned"
    /\ pc' = "call_done"
    /\ UNCHANGED <<max_retries, attempt, waits>>
    /\ UNCHANGED HandlerVars
    /\ UNCHANGED other

\* lines 83-88: openai_resp.json(), ["choices"], json.loads, parsed.get
MainReportFails ==
    /\ pc = "call_done"
    /\ ReportError(genBody) # Absent
    /\ Respond(ErrorReply(500, ReportError(genBody)))
    /\ UNCHANGED <<data, description, issue_key, puts, putResp, jsonParsed, console>>
    /\ UNCHANGED CallVars
    /\ UNCHANGED other

\* lines 90-135: the PUT and the answer built from it
MainUpdateJira ==
    /\ pc = "call_done"
    /\ ReportError(genBody) = Absent
    /\ puts' = Append(puts, <<issue_key, NewTitle(genBody), NewDescription(genBody)>>)
    /\ \E o \in PutOutcomes :
        /\ putResp' = o
        /\ IF UpdateRaises(o) # Absent
           THEN /\ jsonParsed' = FALSE
                /\ Respond(ErrorReply(500, UpdateRaises(o)))
           ELSE IF NoContent(o.status, o.text)
           THEN /\ jsonParsed' = FALSE
                /\ Respond(JiraReply(SyntheticMessage))
           ELSE /\ jsonParsed' = TRUE
                /\ IF ParseJson(o.text) = Absent
                   THEN Respond(ErrorReply(500, "JSONDecodeError"))
                   ELSE Respond(JiraReply(ParseJson(o.text)))
    /\ UNCHANGED <<data, description, issue_key, console>>
    /\ UNCHANGED CallVars
    /\ UNCHANGED other

InitMain ==
    /\ pc = "start"
    /\ data \in Payloads
    /\ max_retries = 0
    /\ InitCall
    /\ InitHandler

NextMain ==
    \/ MainNoPayload
    \/ MainMissingIssue
    \/ MainExtractFails
    \/ MainSkipped
    \/ MainMissingKey
    \/ MainGenerate
    \/ MainPostFails
    \/ MainPostReturned
    \/ MainReportFails
    \/ MainUpdateJira

SpecMain == InitMain /\ [][NextMain]_vars

\* C18: in main.py a non-empty payload without an issue object, or whose
\* issue object has no key, is answered "error" with HTTP 400 and no
\* outbound call; a request sends at most one generation POST and at most one
\* tracker PUT and never waits, so a POST answered 429 or with any other
\* non-success status ends the request with "error", HTTP 500 and no PUT.
C18_MainNoRetry ==
    /\ posts <= 1
    /\ Len(puts) <= 1
    /\ waits = <<>>
    /\ (~DataFalsy(data) /\ (data.issue = Absent \/ data.key = Absent)) =>
            /\ NoOutboundCall
            /\ Answered => (response.status = "error" /\ response.code = 400)
    /\ (posts = 1 /\ resps[1].kind = "http" /\ resps[1].status >= 400) =>
            /\ Answered
            /\ puts = <<>>
            /\ response.status = "error"
            /\ response.code = 500

C18_Witness ==
    /\ Answered
    /\ posts = 1
    /\ Is429(resps[1])
    /\ puts = <<>>
    /\ response.status = "error"
    /\ response.code = 500

----------------------------------------------------------------------------
(* Two requests in flight at once: the server runs each webhook() call in   *)
(* its own thread.  The running request's frame is in the variables, the    *)
(* frame of the request that is not running is in `other`, and Switch hands *)
(* the processor to the other request between any two steps.                *)

Frame ==
    [pc |-> pc, data |-> data, description |-> description, issue_key |-> issue_key,
     max_retries |-> max_retries, attempt |-> attempt, resps |-> resps, waits |-> waits,
     callResult |-> callResult, genBody |-> genBody, puts |-> puts, putResp |-> putResp,
     jsonParsed |-> jsonParsed, console |-> console, response |-> response]

\* variant: attempt is a module-level counter, so the request that resumes
\* finds the value the other request left
ResumedAttempt_Global(own, running) == running

\* attempt is the loop variable of the call's own frame
ResumedAttempt(own, running) == own

Switch ==
    /\ other' = Frame
    /\ pc' = other.pc
    /\ data' = other.data
    /\ description' = other.description
    /\ issue_key' = other.issue_key
    /\ max_retries' = other.max_retries
    /\ attempt' = ResumedAttempt(other.attempt, attempt)
    /\ resps' = other.resps
    /\ waits' = other.waits
    /\ callResult' = other.callResult
    /\ genBody' = other.genBody
    /\ puts' = other.puts
    /\ putResp' = other.putResp
    /\ jsonParsed' = other.jsonParsed
    /\ console' = other.console
    /\ response' = other.response

\* the payloads of the two requests
TwoPayloads ==
    { p \in Payloads :
        \/ p.body = "none"
        \/ (p.issue = Absent /\ p.desc # Absent)
        \/ (p.key \in {"PROJ-1", "PROJ-2"} /\ p.fdesc = "login fails" /\ p.desc = Absent)
        \/ (p.key = "PROJ-1" /\ p.fields = Absent /\ p.desc = Absent) }

\* the answers the two services give while two requests are in flight: any
\* first answer, then 429 or 200; three kinds of report; three tracker answers
EnvTwo ==
    /\ \A i \in 1..Len(resps) :
        \/ i = 1 /\ resps[i] \in {HttpOutcome(200), HttpOutcome(429), HttpOutcome(500),
                                  TransportOutcome("Timeout")}
        \/ i > 1 /\ resps[i] \in {HttpOutcome(200), HttpOutcome(429)}
    /\ genBody \in {NoBody, [kind |-> "content_invalid", keys |-> {}],
                    [kind |-> "object", keys |-> {}],
                    [kind |-> "object", keys |-> ReportKeys]}
    /\ \/ putResp = NoPutResp
       \/ /\ putResp.kind = "http"
          /\ <<putResp.status, putResp.text>> \in
                {<<204, <<>> >>, <<404, <<>> >>, <<200, <<"{", "}">> >>}

TwoPostRateLimited == PostRateLimited /\ EnvTwo'

TwoPostFailed == PostFailed /\ EnvTwo'

TwoPostReturned == PostReturned /\ EnvTwo'

TwoUpdateJira == UpdateJira /\ EnvTwo'

InitTwo ==
    /\ pc = "start"
    /\ data \in TwoPayloads
    /\ max_retries = DefaultMaxRetries
    /\ InitCall
    /\ description = Absent
    /\ issue_key = Absent
    /\ puts = <<>>
    /\ putResp = NoPutResp
    /\ jsonParsed = FALSE
    /\ console = <<>>
    /\ response = NoReply
    /\ other \in {NewFrame(d) : d \in TwoPayloads}

NextTwo ==
    \/ WebhookNoPayload
    \/ WebhookExtractFails
    \/ WebhookSkipped
    \/ WebhookGenerate
    \/ TwoPostRateLimited
    \/ TwoPostFailed
    \/ TwoPostReturned
    \/ Exhausted
    \/ GenerateRaised
    \/ ReportFails
    \/ ConsoleOutput
    \/ TwoUpdateJira
    \/ Switch

SpecTwo == InitTwo /\ [][NextTwo]_vars

\* the answer a request gets when it runs alone, as a function of its payload
\* and of the answers to its own calls
SoloResponse(f) ==
    IF DataFalsy(f.data) THEN ErrorReply(400, "No JSON payload received")
    ELSE IF ExtractRaises(f.data) THEN ErrorReply(500, "'fields'")
    ELSE IF ~Truthy(ExtractDescription(f.data)) THEN SkippedReply
    ELSE IF f.resps = <<>> \/ ~IsSuccess(f.resps[Len(f.resps)])
         THEN ErrorReply(500, ExhaustedMessage)
    ELSE IF ReportError(f.genBody) # Absent THEN ErrorReply(500, ReportError(f.genBody))
    ELSE IF ~Truthy(ExtractIssueKey(f.data))
         THEN ConsoleReply(NewTitle(f.genBody), NewDescription(f.genBody))
    ELSE IF UpdateRaises(f.putResp) # Absent THEN ErrorReply(500, UpdateRaises(f.putResp))
    ELSE IF NoContent(f.putResp.status, f.putResp.text) THEN JiraReply(SyntheticMessage)
    ELSE IF ParseJson(f.putResp.text) = Absent THEN ErrorReply(500, "JSONDecodeError")
    ELSE JiraReply(ParseJson(f.putResp.text))

\* a frame holds what its own request produces when it runs alone
OwnFrame(f) ==
    /\ f.attempt = Len(f.waits)
    /\ Len(f.resps) <= f.max_retries
    /\ Len(f.waits) \in {Len(f.resps), Len(f.resps) - 1}
    /\ \A i \in 1..Len(f.waits) : ~IsSuccess(f.resps[i]) /\ f.waits[i] = 2 ^ (i - 1)
    /\ f.callResult = "raised" => Len(f.resps) = f.max_retries
    /\ f.pc \in {"post", "call_done"} =>
            /\ f.description = ExtractDescription(f.data)
            /\ f.issue_key = ExtractIssueKey(f.data)
    /\ \A i \in 1..Len(f.puts) :
            f.puts[i] = <<ExtractIssueKey(f.data), NewTitle(f.genBody), NewDescription(f.genBody)>>
    /\ f.console # <<>> => f.console = <<NewTitle(f.genBody), NewDescription(f.genBody)>>
    /\ f.pc = "done" => f.response = SoloResponse(f)

\* C19: with two requests interleaved in any order, each request's attempt
\* counter, description, issue key, POSTs, waits, PUT and answer are those it
\* has when it runs alone: they are determined by its own payload and the
\* answers to its own calls.
C19_RequestsAreIndependent == OwnFrame(Frame) /\ OwnFrame(other)

\* both requests are in their retry loops at once, at different attempts
C19_Witness ==
    /\ pc = "post" /\ other.pc = "post"
    /\ issue_key = "PROJ-1" /\ other.issue_key = "PROJ-2"
    /\ attempt = 1 /\ waits = <<1>>
    /\ other.attempt = 3 /\ other.waits = <<1, 2, 4>>

====
